---- MODULE Spec2Model ----
(***************************************************************************)
(* ShockScore: the webcam frame-analysis routes, the React webcam          *)
(* component, and the video processing routes with the Python bridge.      *)
(*                                                                         *)
(* Numbers.  Emotion values are percentages; the model keeps them in       *)
(* fixed point, Scale units per percentage point.  Weights are kept in     *)
(* tenths (2.0 is 20).  Shock scores are kept in tenths of a point, the    *)
(* resolution calculateShockScore rounds to (100.0 is 1000).               *)
(***************************************************************************)
EXTENDS Integers, Sequences, FiniteSets, TLC

VARIABLES
    emotions,      \* the emotion vector handed to calculateShockScore
    baseline,      \* the session baseline the documentation refers to
    shockScore,    \* calculateShockScore's result, in tenths
    scorePc,       \* "ready" before the call, "done" after it
    \* deployment
    component,     \* the webcam component Dashboard.js renders
    mounted,       \* the route server.js mounts at /api/analyze
    \* the webcam component (React state and refs)
    isActive, currentShockScore, dominantEmotion, emotionScores,
    isProcessing, faceDetected,
    srcObject,     \* videoRef.current.srcObject is a stream
    intervalRef,   \* intervalRef.current: a timer id, 0 for null
    timers,        \* the interval timers that exist, with what their callback closed over
    pendingStarts, \* getUserMedia calls not yet settled, by the isProcessing their render saw
    starts,        \* Start Camera clicks so far
    frameSeq,      \* frames captured so far; a frame's number is its capture order
    lastApplied,   \* the frame whose result the component applied last, 0 for none
    \* the network and the backend
    requests,      \* POST /api/analyze/frame requests not yet answered to the component
    fs,            \* backend/temp: temp path -> the request whose frame the file holds, 0 for no file
    now,           \* Date.now() on the server
    \* the video routes, the Python bridge and Socket.IO
    uploads,       \* backend/uploads: path -> what the file holds
    uploadSeq,     \* videos multer has stored so far; a video's id is its upload number
    runs,          \* the background runs POST /:id/process has scheduled
    rooms,         \* socket -> the rooms it has joined
    received,      \* socket -> the events it has received
    \* one session of the analytics core, and what the application shows
    frameCount,    \* frames the session has ingested; a frame's timestamp is its number
    ingested,      \* per frame ingested: its audience size and the baseline's state when the engine got it
    calibrator,    \* the BaselineCalibrator: state, running sums, sample count, baseline
    timeline,      \* the session Timeline: ShockScoreSamples in timestamp order
    detector,      \* the ScareEventDetector: armed flag and the ScareEvents emitted
    shown          \* the document the application last displayed or answered with

scoreVars == <<emotions, baseline, shockScore, scorePc>>
deployVars == <<component, mounted>>
displayVars == <<currentShockScore, dominantEmotion, emotionScores, faceDetected>>
camVars == <<isActive, srcObject, intervalRef, timers, pendingStarts, starts>>
webcamVars == <<displayVars, camVars, isProcessing, frameSeq, lastApplied>>
serverVars == <<requests, fs, now>>
frameVars == <<deployVars, webcamVars, serverVars>>
videoVars == <<uploads, uploadSeq, runs, rooms, received>>
engineVars == <<frameCount, ingested, calibrator, timeline, detector, shown>>
vars == <<scoreVars, frameVars, videoVars, engineVars>>

----------------------------------------------------------------------------
(* Fixed point *)

\* units per percentage point (a resolution of 0.01)
Scale == 10 * 10

Pct(n) == n * Scale

Min(a, b) == IF a <= b THEN a ELSE b

\* Math.round(n / d) for d > 0: the nearest integer, halves towards +infinity
MathRound(n, d) == (2 * n + d) \div (2 * d)

Categories == {"angry", "disgust", "fear", "happy", "sad", "surprise", "neutral"}

----------------------------------------------------------------------------
(* calculateShockScore, routes/analyze.js and routes/analyze-simple.js *)

FEAR_WEIGHT == 20
SURPRISE_WEIGHT == 15
DISGUST_WEIGHT == 8
HAPPY_WEIGHT == 3
ANGRY_WEIGHT == 2
SAD_WEIGHT == 1

\* (emotions.k || 0): a missing category counts as 0
OrZero(e, k) == IF k \in DOMAIN e THEN e[k] ELSE 0

\* the weighted sum, in units of 1/(10 * Scale)
WeightedSum(e) ==
    OrZero(e, "fear") * FEAR_WEIGHT
    + OrZero(e, "surprise") * SURPRISE_WEIGHT
    + OrZero(e, "disgust") * DISGUST_WEIGHT
    + OrZero(e, "happy") * HAPPY_WEIGHT
    + OrZero(e, "angry") * ANGRY_WEIGHT
    + OrZero(e, "sad") * SAD_WEIGHT

\* a divisor that is the largest weighted sum a distribution can reach
maxPossibleFearOnly == 100 * FEAR_WEIGHT

\* 100 * (FEAR_WEIGHT + SURPRISE_WEIGHT), in tenths
maxPossible == 100 * (FEAR_WEIGHT + SURPRISE_WEIGHT)

\* the same function with the Math.min(100, ...) cap left out
calculateShockScoreNoCap(e) ==
    MathRound(1000 * WeightedSum(e), Scale * maxPossible)

\* Math.round(Math.min(100, score / maxPossible * 100) * 10) / 10, in tenths
calculateShockScore(e) ==
    IF WeightedSum(e) >= Scale * maxPossible
    THEN 1000
    ELSE MathRound(1000 * WeightedSum(e), Scale * maxPossible)

\* calculateShockScore of routes/analyze-simple.js, from its own constants
calculateShockScoreSimple(e) ==
    LET fearWeight == 20
        surpriseWeight == 15
        disgustWeight == 8
        happyWeight == 3
        angryWeight == 2
        sadWeight == 1
        score == OrZero(e, "fear") * fearWeight
                 + OrZero(e, "surprise") * surpriseWeight
                 + OrZero(e, "disgust") * disgustWeight
                 + OrZero(e, "happy") * happyWeight
                 + OrZero(e, "angry") * angryWeight
                 + OrZero(e, "sad") * sadWeight
        maxPossibleSimple == 100 * (fearWeight + surpriseWeight)
    IN  IF score >= Scale * maxPossibleSimple
        THEN 1000
        ELSE MathRound(1000 * score, Scale * maxPossibleSimple)

\* calculateShockScore of netlify/functions/analyze-frame.js, from its own constants
calculateShockScoreNetlify(e) ==
    LET fearWeight == 20
        surpriseWeight == 15
        disgustWeight == 8
        happyWeight == 3
        angryWeight == 2
        sadWeight == 1
        score == OrZero(e, "fear") * fearWeight
                 + OrZero(e, "surprise") * surpriseWeight
                 + OrZero(e, "disgust") * disgustWeight
                 + OrZero(e, "happy") * happyWeight
                 + OrZero(e, "angry") * angryWeight
                 + OrZero(e, "sad") * sadWeight
        maxPossibleNetlify == 100 * (fearWeight + surpriseWeight)
    IN  IF score >= Scale * maxPossibleNetlify
        THEN 1000
        ELSE MathRound(1000 * score, Scale * maxPossibleNetlify)

----------------------------------------------------------------------------
(* The documented instantaneous score: ARCHITECTURE.md and spec 4.3 *)

W_FEAR == 20
W_SURPRISE == 15

\* clamp(fear_delta * W_FEAR + surprise_delta * W_SURPRISE + tension, 0, 100),
\* in tenths, rounded like the code's result
DocumentedShockScore(e, b) ==
    LET fear_delta == OrZero(e, "fear") - b.fear
        surprise_delta == OrZero(e, "surprise") - b.surprise
        \* 20 * raw_score, in units of 1/Scale
        raw20 == 2 * (fear_delta * W_FEAR + surprise_delta * W_SURPRISE)
                 + 10 * (OrZero(e, "fear") + OrZero(e, "disgust"))
    IN  IF raw20 <= 0 THEN 0
        ELSE IF raw20 >= 20 * Pct(100) THEN 1000
        ELSE MathRound(raw20, 2 * Scale)

\* the frame of the documented scenario: fear 40, surprise 20, disgust 10
ScenarioFrame ==
    [angry |-> 0, disgust |-> Pct(10), fear |-> Pct(40), happy |-> 0,
     sad |-> 0, surprise |-> Pct(20), neutral |-> Pct(30)]

----------------------------------------------------------------------------
(* Math.random() and the responses of POST /api/analyze/frame *)

\* Math.random() returns k / RandDen for some k in 0..RandDen-1
RandDen == 2

\* the draws of one handler run, in call order: every constant stream, and
\* the stream that alternates between the least and the greatest draw
RandStreams ==
    {[i \in 1..8 |-> k] : k \in 0..(RandDen - 1)}
    \cup {[i \in 1..8 |-> IF i % 2 = 1 THEN 0 ELSE RandDen - 1]}

\* Math.random() * n for the i-th draw of stream s, n in percentage points
Rand(s, i, n) == (Pct(n) * s[i]) \div RandDen

\* Object.entries order of the emotion objects the routes build
CategoryOrder == <<"angry", "disgust", "fear", "happy", "sad", "surprise", "neutral">>

SumOver(e) ==
    e.angry + e.disgust + e.fear + e.happy + e.sad + e.surprise + e.neutral

\* Object.entries(e).reduce((a, b) => a[1] > b[1] ? a : b)[0]
RECURSIVE ReduceDominant(_, _, _)
ReduceDominant(e, a, i) ==
    IF i > Len(CategoryOrder) THEN a
    ELSE ReduceDominant(e, IF e[a] > e[CategoryOrder[i]] THEN a ELSE CategoryOrder[i], i + 1)

Dominant(e) == ReduceDominant(e, CategoryOrder[1], 2)

\* routes/analyze-simple.js: mockEmotions
mockEmotions(s) ==
    [angry |-> Rand(s, 1, 15),
     disgust |-> Rand(s, 2, 10),
     fear |-> Pct(20) + Rand(s, 3, 40),
     happy |-> Rand(s, 4, 25),
     sad |-> Rand(s, 5, 15),
     surprise |-> Pct(10) + Rand(s, 6, 30),
     neutral |-> Pct(10) + Rand(s, 7, 30)]

\* normalized[emotion] = (value / total) * 100, to the model's resolution
normalize(m) ==
    [k \in DOMAIN m |-> (m[k] * Pct(100)) \div SumOver(m)]

\* routes/analyze-simple.js: the response
SimpleResponse(s) ==
    [faceDetected |-> TRUE,
     emotions |-> normalize(mockEmotions(s)),
     dominantEmotion |-> Dominant(normalize(mockEmotions(s))),
     shockScore |-> calculateShockScoreSimple(normalize(mockEmotions(s))),
     mode |-> "mock"]

\* netlify/functions/analyze-frame.js: the body of the 200 response
NetlifyResponse(s) ==
    [faceDetected |-> TRUE,
     emotions |-> normalize(mockEmotions(s)),
     dominantEmotion |-> Dominant(normalize(mockEmotions(s))),
     shockScore |-> calculateShockScoreNetlify(normalize(mockEmotions(s))),
     mode |-> "mock",
     platform |-> "netlify"]

\* routes/analyze.js: the response for a detected face
FaceResponse(analysis) ==
    [faceDetected |-> TRUE,
     emotions |-> analysis.emotions,
     dominantEmotion |-> analysis.dominantEmotion,
     shockScore |-> calculateShockScore(analysis.emotions)]

\* routes/analyze.js: the response when no face is detected
NoFaceResponse ==
    [faceDetected |-> FALSE, message |-> "No face detected in frame"]

\* a failed analysis answered like a frame without a face
FallbackAsNoFace(s) == NoFaceResponse

\* routes/analyze.js: the response when the Python analysis fails; the
\* shockScore, Math.random() * 50, is kept in tenths
FallbackResponse(s) ==
    [faceDetected |-> TRUE,
     emotions |-> [angry |-> Rand(s, 1, 10),
                   disgust |-> Rand(s, 2, 5),
                   fear |-> Rand(s, 3, 30),
                   happy |-> Rand(s, 4, 20),
                   sad |-> Rand(s, 5, 15),
                   surprise |-> Rand(s, 6, 20),
                   neutral |-> Rand(s, 7, 40)],
     dominantEmotion |-> "neutral",
     shockScore |-> (500 * s[8]) \div RandDen,
     note |-> "Using mock data - Python engine unavailable"]

\* what analyze_frame.py prints for a frame with a face: the classifier's
\* percentages, which sum to 100
ClassifierResults ==
    {[faceDetected |-> TRUE, emotions |-> ScenarioFrame, dominantEmotion |-> "fear"],
     [faceDetected |-> TRUE,
      emotions |-> [angry |-> Pct(1), disgust |-> Pct(1), fear |-> Pct(2), happy |-> Pct(10),
                    sad |-> Pct(3), surprise |-> Pct(3), neutral |-> Pct(80)],
      dominantEmotion |-> "neutral"]}

\* no response yet
NoResponse == [pending |-> TRUE]

----------------------------------------------------------------------------
(* The webcam component: WebcamShockScore.js and WebcamShockScoreSimple *)

\* Start Camera clicks in one behaviour
MaxStarts == 2
\* frames captured in one behaviour
MaxFrames == 2

Components == {"WebcamShockScore", "WebcamShockScoreSimple"}

ZeroScores ==
    [angry |-> 0, disgust |-> 0, fear |-> 0, happy |-> 0, sad |-> 0, surprise |-> 0,
     neutral |-> 0]

\* a field the response does not carry reads as undefined
UndefinedEmotions == [undefined |-> TRUE]
UndefinedScore == -1
Field(data, f, undefined) == IF f \in DOMAIN data THEN data[f] ELSE undefined

InitWebcam ==
    /\ isActive = FALSE
    /\ currentShockScore = 0
    /\ dominantEmotion = "neutral"
    /\ emotionScores = ZeroScores
    /\ isProcessing = FALSE
    /\ faceDetected = FALSE
    /\ srcObject = FALSE
    /\ intervalRef = 0
    /\ timers = {}
    /\ pendingStarts = [b \in BOOLEAN |-> 0]
    /\ starts = 0
    /\ frameSeq = 0
    /\ lastApplied = 0

\* startWebcam up to its await: the click runs the handler of the current
\* render, whose closures hold that render's isProcessing
ClickStart ==
    /\ ~isActive
    /\ starts < MaxStarts
    /\ starts' = starts + 1
    /\ pendingStarts' = [pendingStarts EXCEPT ![isProcessing] = @ + 1]
    /\ UNCHANGED <<scoreVars, engineVars, videoVars, deployVars, displayVars, isActive, srcObject, intervalRef, timers,
                   isProcessing, frameSeq, lastApplied, serverVars>>

\* setInterval's return value: a fresh timer id
NewTimerId == starts - pendingStarts[TRUE] - pendingStarts[FALSE] + 1

\* startFrameCapture: intervalRef.current = setInterval(...), whatever it held
startFrameCapture(saw) ==
    /\ timers' = timers \cup {[id |-> NewTimerId, sawProcessing |-> saw]}
    /\ intervalRef' = NewTimerId

\* startWebcam after getUserMedia resolved, for a click whose render saw
\* isProcessing = saw
GetUserMediaResolve(saw) ==
    /\ pendingStarts[saw] > 0
    /\ pendingStarts' = [pendingStarts EXCEPT ![saw] = @ - 1]
    /\ srcObject' = TRUE
    /\ isActive' = TRUE
    /\ faceDetected' = IF component = "WebcamShockScoreSimple" THEN TRUE ELSE faceDetected
    /\ startFrameCapture(saw)
    /\ UNCHANGED <<scoreVars, engineVars, videoVars, deployVars, currentShockScore, dominantEmotion, emotionScores,
                   starts, isProcessing, frameSeq, lastApplied, serverVars>>

\* startWebcam's catch: getUserMedia rejected
GetUserMediaReject(saw) ==
    /\ pendingStarts[saw] > 0
    /\ pendingStarts' = [pendingStarts EXCEPT ![saw] = @ - 1]
    /\ UNCHANGED <<scoreVars, engineVars, videoVars, deployVars, displayVars, isActive, srcObject, intervalRef, timers,
                   starts, isProcessing, frameSeq, lastApplied, serverVars>>

\* stopFrameCapture: clears the timer intervalRef.current names
stopFrameCapture ==
    /\ timers' = {t \in timers : t.id # intervalRef}
    /\ intervalRef' = 0

resetScores ==
    /\ currentShockScore' = 0
    /\ dominantEmotion' = "neutral"
    /\ emotionScores' = ZeroScores
    /\ faceDetected' = FALSE

stopWebcam ==
    /\ isActive
    /\ srcObject' = FALSE
    /\ isActive' = FALSE
    /\ stopFrameCapture
    /\ resetScores
    /\ UNCHANGED <<scoreVars, engineVars, videoVars, deployVars, pendingStarts, starts, isProcessing, frameSeq, lastApplied,
                   serverVars>>

\* a request as fetch sends it
NewRequest(n) ==
    [id |-> n, stage |-> "sent", tempPath |-> 0, analysis |-> [notRun |-> TRUE],
     resp |-> NoResponse]

\* the guard reading the component's current isProcessing
TickIsDroppedLive(t) == isProcessing

\* the guard of captureAndAnalyze, reading the isProcessing the timer's
\* callback closed over
TickIsDropped(t) == t.sawProcessing

\* one tick of an interval timer: captureAndAnalyze, with canvas.toBlob's
\* callback up to its fetch
TimerTick(t) ==
    /\ t \in timers
    /\ \/ /\ TickIsDropped(t)
          /\ UNCHANGED <<isProcessing, frameSeq, requests>>
       \/ /\ ~TickIsDropped(t)
          /\ frameSeq < MaxFrames
          /\ frameSeq' = frameSeq + 1
          /\ isProcessing' = TRUE
          /\ requests' = requests \cup {NewRequest(frameSeq + 1)}
    /\ UNCHANGED <<scoreVars, engineVars, videoVars, deployVars, displayVars, camVars, lastApplied, fs, now>>

\* WebcamShockScore: if (data.faceDetected) {...}
ApplyFace(data) ==
    /\ faceDetected' = TRUE
    /\ emotionScores' = Field(data, "emotions", UndefinedEmotions)
    /\ dominantEmotion' = Field(data, "dominantEmotion", "undefined")
    /\ currentShockScore' = Field(data, "shockScore", UndefinedScore)

\* a frame without a face shown as a score of zero
ApplyNoFaceAsZero(data) ==
    /\ faceDetected' = FALSE
    /\ currentShockScore' = 0
    /\ UNCHANGED <<emotionScores, dominantEmotion>>

\* WebcamShockScore: else { setFaceDetected(false) }
ApplyNoFace(data) ==
    /\ faceDetected' = FALSE
    /\ UNCHANGED <<currentShockScore, emotionScores, dominantEmotion>>

\* the body of if (response.ok) in each component
ApplyResponse(data) ==
    IF component = "WebcamShockScore"
    THEN IF data.faceDetected THEN ApplyFace(data) ELSE ApplyNoFace(data)
    ELSE ApplyFace(data)

\* fetch resolves with the 200 response of request r; finally
\* setIsProcessing(false)
DeliverResponse(r) ==
    /\ r \in requests
    /\ r.stage = "responded"
    /\ ApplyResponse(r.resp)
    /\ isProcessing' = FALSE
    /\ lastApplied' = r.id
    /\ requests' = requests \ {r}
    /\ UNCHANGED <<scoreVars, engineVars, videoVars, deployVars, camVars, frameSeq, fs, now>>

\* fetch rejects: the request never reached the server
NetworkError(r) ==
    /\ r \in requests
    /\ r.stage = "sent"
    /\ isProcessing' = FALSE
    /\ requests' = requests \ {r}
    /\ UNCHANGED <<scoreVars, engineVars, videoVars, deployVars, displayVars, camVars, frameSeq, lastApplied, fs, now>>

----------------------------------------------------------------------------
(* Inputs of the scoring specification *)

\* the grid has MaxLevel + 1 values per category, from 0 to 100
MaxLevel == 2

Levels == {(Pct(100) * k) \div MaxLevel : k \in 0..MaxLevel}

\* every vector over every subset of the categories, on the grid
GridVectors ==
    UNION {[D -> Levels] : D \in SUBSET Categories}

EmotionVectors == GridVectors \cup {ScenarioFrame}

\* the baseline of the documented scenario, and the all-zero baseline
Baselines == {[fear |-> Pct(5), surprise |-> Pct(3)], [fear |-> 0, surprise |-> 0]}

InitScore ==
    /\ emotions \in EmotionVectors
    /\ baseline \in Baselines
    /\ shockScore = 0
    /\ scorePc = "ready"

\* no scoring call in this behaviour
InitScoreIdle ==
    /\ emotions = ScenarioFrame
    /\ baseline = [fear |-> 0, surprise |-> 0]
    /\ shockScore = 0
    /\ scorePc = "idle"

\* const shockScore = calculateShockScore(emotions)
ComputeScore ==
    /\ scorePc = "ready"
    /\ shockScore' = calculateShockScore(emotions)
    /\ scorePc' = "done"
    /\ UNCHANGED <<emotions, baseline, frameVars, videoVars, engineVars>>


----------------------------------------------------------------------------
(* POST /api/analyze/frame: routes/analyze.js and routes/analyze-simple.js *)

\* distinct values Date.now() takes in one behaviour, beyond the first
MaxClock == 1

Routes == {"analyze", "analyze-simple"}

TempPaths == 0..MaxClock

InitServer ==
    /\ requests = {}
    /\ fs = [p \in TempPaths |-> 0]
    /\ now = 0

Advance(r, fields) == (requests \ {r}) \cup {fields}

\* what PythonShell.run resolves with (results[0]), or its rejection
Rejected == [rejected |-> TRUE]
PythonOutputs ==
    ClassifierResults \cup {[faceDetected |-> FALSE], [faceDetected |-> TRUE]}

\* analysis && analysis.faceDetected with analysis.emotions an object
WellFormedFace(a) == "faceDetected" \in DOMAIN a /\ a.faceDetected /\ "emotions" \in DOMAIN a
\* calculateShockScore(undefined) throws inside the inner try
ThrowsInTry(a) == "faceDetected" \in DOMAIN a /\ a.faceDetected /\ "emotions" \notin DOMAIN a

\* fs.unlink(path).catch(() => {})
Unlinked(files, path) == [files EXCEPT ![path] = 0]

\* a catch block that answers without the cleanup
CleanupSkipped(files, path) == files

\* the catch block's cleanup: await fs.unlink(tempPath).catch(() => {})
CleanupAfterError(files, path) == Unlinked(files, path)

\* the res.json the handler ends with, for analysis a and Math.random() draws s
ResponseFor(a, s) ==
    IF a = Rejected \/ ThrowsInTry(a) THEN FallbackResponse(s)
    ELSE IF WellFormedFace(a) THEN FaceResponse(a)
    ELSE NoFaceResponse

\* a client posts a frame to /api/analyze/frame
PostFrame ==
    /\ frameSeq < MaxFrames
    /\ frameSeq' = frameSeq + 1
    /\ requests' = requests \cup {NewRequest(frameSeq + 1)}
    /\ UNCHANGED <<scoreVars, engineVars, videoVars, deployVars, displayVars, camVars, isProcessing, lastApplied, fs, now>>

\* the handler up to PythonShell.run: tempPath = frame-${Date.now()}.jpg,
\* where Date.now() is the value last read or a later one, and
\* fs.writeFile(tempPath, req.file.buffer)
ReceiveFrame(r) ==
    /\ mounted = "analyze"
    /\ r \in requests
    /\ r.stage = "sent"
    /\ \E t \in {now, now + 1} :
          /\ t <= MaxClock
          /\ now' = t
          /\ fs' = [fs EXCEPT ![t] = r.id]
          /\ requests' = Advance(r, [r EXCEPT !.stage = "written", !.tempPath = t])
    /\ UNCHANGED <<scoreVars, engineVars, videoVars, deployVars, webcamVars>>

\* PythonShell.run(scriptPath, {args: [tempPath]}) reads the file and
\* settles; the script can only find a face in a file that exists
PythonRun(r) ==
    /\ r \in requests
    /\ r.stage = "written"
    /\ \E a \in PythonOutputs \cup {Rejected} :
          /\ fs[r.tempPath] = 0 => a \in {Rejected, [faceDetected |-> FALSE]}
          /\ requests' = Advance(r, [r EXCEPT !.stage = "analysed", !.analysis = a])
    /\ UNCHANGED <<scoreVars, engineVars, videoVars, deployVars, webcamVars, fs, now>>

\* the try block after the run resolved: line 61 unlink, then res.json
SendResponse(r) ==
    /\ r \in requests
    /\ r.stage = "analysed"
    /\ r.analysis # Rejected
    /\ ~ThrowsInTry(r.analysis)
    /\ fs' = Unlinked(fs, r.tempPath)
    /\ \E s \in RandStreams :
          requests' = Advance(r, [r EXCEPT !.stage = "responded",
                                           !.resp = ResponseFor(r.analysis, s)])
    /\ UNCHANGED <<scoreVars, engineVars, videoVars, deployVars, webcamVars, now>>

\* catch (pythonError): the run rejected, or the try block threw after its
\* own unlink; line 84 cleanup, then res.json with mock data
SendFallback(r) ==
    /\ r \in requests
    /\ r.stage = "analysed"
    /\ r.analysis = Rejected \/ ThrowsInTry(r.analysis)
    /\ fs' = CleanupAfterError(IF ThrowsInTry(r.analysis) THEN Unlinked(fs, r.tempPath) ELSE fs,
                               r.tempPath)
    /\ \E s \in RandStreams :
          requests' = Advance(r, [r EXCEPT !.stage = "responded",
                                           !.resp = ResponseFor(r.analysis, s)])
    /\ UNCHANGED <<scoreVars, engineVars, videoVars, deployVars, webcamVars, now>>

\* routes/analyze-simple.js: the whole handler
SimpleRespond(r) ==
    /\ mounted = "analyze-simple"
    /\ r \in requests
    /\ r.stage = "sent"
    /\ \E s \in RandStreams :
          requests' = Advance(r, [r EXCEPT !.stage = "responded", !.resp = SimpleResponse(s)])
    /\ UNCHANGED <<scoreVars, engineVars, videoVars, deployVars, webcamVars, fs, now>>

\* the response has gone out and the exchange is over
CloseRequest(r) ==
    /\ r \in requests
    /\ r.stage = "responded"
    /\ requests' = requests \ {r}
    /\ UNCHANGED <<scoreVars, engineVars, videoVars, deployVars, webcamVars, fs, now>>

\* routes/analyze.js: the whole handler, as the component sees it
AnswerFrame(r) ==
    /\ mounted = "analyze"
    /\ r \in requests
    /\ r.stage = "sent"
    /\ \E a \in PythonOutputs \cup {Rejected}, s \in RandStreams :
          requests' = Advance(r, [r EXCEPT !.stage = "responded", !.analysis = a,
                                           !.resp = ResponseFor(a, s)])
    /\ UNCHANGED <<scoreVars, engineVars, videoVars, deployVars, webcamVars, fs, now>>

----------------------------------------------------------------------------
(* The video routes (routes/video.js), the Python bridge and Socket.IO *)

MaxRuns == 2

\* ids a client can name in a URL; the ids multer hands out are 1..uploadSeq
VideoIds == {1, 2}
Sockets == {"socket-1"}

\* path.join(__dirname, '../uploads', videoId)
VideoPath(videoId) == <<"uploads", videoId>>
\* path.join(__dirname, '../uploads', `${videoId}-report.json`)
ReportPath(videoId) == <<"uploads", videoId, "-report.json">>
UploadPaths == {VideoPath(v) : v \in VideoIds} \cup {ReportPath(v) : v \in VideoIds}

NoFile == [kind |-> "none"]
VideoOf(v) == [kind |-> "video", of |-> v]
\* the report the engine writes for the video at its --input
ReportOf(v) == [kind |-> "report", of |-> v]
Exists(path) == uploads[path] # NoFile

\* `session-${sessionId}`
Room(sessionId) == <<"session-", sessionId>>

InitVideo ==
    /\ uploads = [p \in UploadPaths |-> NoFile]
    /\ uploadSeq = 0
    /\ runs = {}
    /\ rooms = [s \in Sockets |-> {}]
    /\ received = [s \in Sockets |-> {}]

\* POST /api/videos/upload: multer stores the file under a fresh name
Upload ==
    /\ uploadSeq + 1 \in VideoIds
    /\ uploadSeq' = uploadSeq + 1
    /\ uploads' = [uploads EXCEPT ![VideoPath(uploadSeq + 1)] = VideoOf(uploadSeq + 1)]
    /\ UNCHANGED <<scoreVars, engineVars, frameVars, runs, rooms, received>>

\* socket.on('subscribe-session', (sessionId) => socket.join(`session-${sessionId}`))
SubscribeSession(s, sessionId) ==
    /\ rooms' = [rooms EXCEPT ![s] = @ \cup {Room(sessionId)}]
    /\ UNCHANGED <<scoreVars, engineVars, frameVars, uploads, uploadSeq, runs, received>>

\* io.emit(...): every connected socket
Broadcast(videoId) == Sockets

\* io.to(`session-${videoId}`): the sockets in that room
Recipients(videoId) == {s \in Sockets : Room(videoId) \in rooms[s]}

\* io.to(`session-${videoId}`).emit(event, { videoId, ... })
Emit(event, videoId) ==
    [s \in Sockets |->
        IF s \in Recipients(videoId)
        THEN received[s] \cup {[event |-> event, videoId |-> videoId]}
        ELSE received[s]]

NewRun(videoId) ==
    [id |-> Cardinality(runs) + 1, videoId |-> videoId,
     videoPath |-> VideoPath(videoId), outputPath |-> ReportPath(videoId),
     stage |-> "scheduled", settled |-> "pending", report |-> NoFile,
     terminal |-> <<>>]

UpdateRun(r, fields) == (runs \ {r}) \cup {fields}

\* a route that looks for nothing
AccessSkipped(videoId) == TRUE

\* await fs.access(videoPath) does not throw
VideoFound(videoId) == Exists(VideoPath(videoId))

\* what POST /api/videos/:id/process answers
ProcessResponse(videoId) ==
    IF VideoFound(videoId)
    THEN [code |-> 200, message |-> "Processing started", videoId |-> videoId,
          status |-> "processing"]
    ELSE [code |-> 404, error |-> "Video not found"]

\* POST /api/videos/:id/process: 404 when the video file is missing, else
\* setImmediate schedules the run and the route answers 'processing'
PostProcess(videoId) ==
    /\ Cardinality(runs) < MaxRuns
    /\ runs' = IF VideoFound(videoId) THEN runs \cup {NewRun(videoId)} ELSE runs
    /\ UNCHANGED <<scoreVars, engineVars, frameVars, uploads, uploadSeq, rooms, received>>

\* the setImmediate callback: pythonBridge.processVideo starts the engine
RunStart(r) ==
    /\ r.stage = "scheduled"
    /\ runs' = UpdateRun(r, [r EXCEPT !.stage = "running"])
    /\ UNCHANGED <<scoreVars, engineVars, frameVars, uploads, uploadSeq, rooms, received>>

\* pyshell.on('message'): a Progress: or Frame: line calls progressCallback
PythonMessage(r) ==
    /\ r.stage = "running"
    /\ received' = Emit("processing-progress", r.videoId)
    /\ UNCHANGED <<scoreVars, engineVars, frameVars, uploads, uploadSeq, runs, rooms>>

\* the engine writes its report to --output
PythonWriteReport(r) ==
    /\ r.stage = "running"
    /\ runs' = UpdateRun(r, [r EXCEPT !.stage = "written"])
    /\ uploads' = [uploads EXCEPT ![r.outputPath] = ReportOf(r.videoPath[2])]
    /\ UNCHANGED <<scoreVars, engineVars, frameVars, uploadSeq, rooms, received>>

\* a callback that announces completion whatever the promise did
SettleAsComplete(r, outcome) == Emit("processing-complete", r.videoId)

\* a bridge that calls the route back on every resolve and reject
TerminalOnEveryCall(r, outcome) ==
    <<IF outcome = "resolved" THEN "processing-complete" ELSE "processing-error">>

\* the terminal events a call of resolve or reject makes the route emit: the
\* promise of processVideo settles once, and the awaiting callback then emits
\* processing-complete (resolved) or processing-error (rejected)
Terminal(r, outcome) ==
    IF r.settled = "pending"
    THEN <<IF outcome = "resolved" THEN "processing-complete" ELSE "processing-error">>
    ELSE <<>>

Settle(r, outcome) ==
    IF Terminal(r, outcome) # <<>>
    THEN Emit(Terminal(r, outcome)[1], r.videoId)
    ELSE received

\* pyshell.on('error'): reject, before or after the end callback
PythonError(r) ==
    /\ r.stage \in {"running", "written", "ended"}
    /\ runs' = UpdateRun(r, [r EXCEPT !.settled = IF @ = "pending" THEN "rejected" ELSE @,
                                      !.terminal = @ \o Terminal(r, "rejected")])
    /\ received' = Settle(r, "rejected")
    /\ UNCHANGED <<scoreVars, engineVars, frameVars, uploads, uploadSeq, rooms>>

\* pyshell.end: reject on err, else read outputPath and resolve, or reject
\* when it cannot be read
PythonEnd(r, err) ==
    /\ r.stage \in {"running", "written"}
    /\ LET read == ~err /\ Exists(r.outputPath)
           outcome == IF read THEN "resolved" ELSE "rejected"
       IN /\ runs' = UpdateRun(r, [r EXCEPT
                        !.stage = "ended",
                        !.report = IF read THEN uploads[r.outputPath] ELSE NoFile,
                        !.settled = IF @ = "pending" THEN outcome ELSE @,
                        !.terminal = @ \o Terminal(r, outcome)])
          /\ received' = Settle(r, outcome)
    /\ UNCHANGED <<scoreVars, engineVars, frameVars, uploads, uploadSeq, rooms>>

\* DELETE /api/videos/:id: unlink the video and its report
DeleteVideo(videoId) ==
    /\ uploads' = [uploads EXCEPT ![VideoPath(videoId)] = NoFile,
                                  ![ReportPath(videoId)] = NoFile]
    /\ UNCHANGED <<scoreVars, engineVars, frameVars, uploadSeq, runs, rooms, received>>

\* what GET /api/videos/:id/status answers: fs.access(reportPath) decides
StatusResponse(videoId) ==
    IF Exists(ReportPath(videoId))
    THEN [code |-> 200, videoId |-> videoId, status |-> "completed",
          reportAvailable |-> TRUE]
    ELSE [code |-> 200, videoId |-> videoId, status |-> "processing",
          reportAvailable |-> FALSE]

\* a report route that answers with whatever report there is so far
ReportSoFar(videoId) ==
    [code |-> 200, videoId |-> videoId, report |-> ReportOf(videoId)]

\* what GET /api/videos/:id/report answers: fs.readFile(reportPath), ENOENT is 404
ReportResponse(videoId) ==
    IF Exists(ReportPath(videoId))
    THEN [code |-> 200, videoId |-> videoId, report |-> uploads[ReportPath(videoId)]]
    ELSE [code |-> 404, error |-> "Report not found. Video may still be processing."]

\* GET /api/videos/:id/status: reads, changes nothing
GetStatus(videoId) ==
    /\ StatusResponse(videoId).code = 200
    /\ UNCHANGED vars

\* GET /api/videos/:id/report: reads, changes nothing
GetReport(videoId) ==
    /\ ReportResponse(videoId).code \in {200, 404}
    /\ UNCHANGED vars

----------------------------------------------------------------------------
(* One session of the analytics core: BaselineCalibrator, ShockScoreEngine, *)
(* ScareEventDetector and ReportBuilder                                     *)

\* frames one session ingests
MaxSessionFrames == 7
\* the calibration window, in timestamps
CalibrationWindow == 1
\* M: the samples of the detector's trailing window
DetectorWindow == 2

\* default 30, in tenths
SPIKE_THRESHOLD == 30 * 10
\* default 5, in tenths
HYSTERESIS == 5 * 10

ZeroVector == [k \in Categories |-> 0]

\* equal-weighted categories
DefaultNeutral == [k \in Categories |-> Pct(100) \div Cardinality(Categories)]

CalmFrame ==
    [angry |-> 0, disgust |-> 0, fear |-> Pct(5), happy |-> 0,
     sad |-> 0, surprise |-> Pct(3), neutral |-> Pct(92)]

TenseFrame ==
    [angry |-> 0, disgust |-> Pct(5), fear |-> Pct(20), happy |-> 0,
     sad |-> 0, surprise |-> Pct(5), neutral |-> Pct(70)]

\* the AggregatedFrames the Anonymizer hands on: no audience, or an audience of
\* five with one of three mean vectors
AggregatedFrames ==
    {[audience_size |-> 0, emotions |-> ZeroVector]}
    \cup {[audience_size |-> 5, emotions |-> e] : e \in {CalmFrame, TenseFrame, ScenarioFrame}}

InitEngine ==
    /\ frameCount = 0
    /\ ingested = <<>>
    /\ calibrator = [state |-> "CALIBRATING", sums |-> ZeroVector, count |-> 0,
                     value |-> ZeroVector, quality |-> "ok"]
    /\ timeline = <<>>
    /\ detector = [armed |-> TRUE, events |-> <<>>]
    /\ shown = [kind |-> "none"]

\* BaselineCalibrator.ingest while CALIBRATING, inside the window
Accumulate(c, frame) ==
    [c EXCEPT !.sums = [k \in Categories |-> c.sums[k] + frame.emotions[k]],
              !.count = c.count + 1]

\* the running mean per category, or the default neutral vector when the window
\* held no valid sample
Freeze(c) ==
    IF c.count = 0
    THEN [c EXCEPT !.state = "FROZEN", !.value = DefaultNeutral, !.quality = "degraded"]
    ELSE [c EXCEPT !.state = "FROZEN",
                   !.value = [k \in Categories |-> c.sums[k] \div c.count]]

\* a calibrator that goes on averaging after the window
IngestUnfrozen(c, frame, ts) ==
    LET a == Accumulate(c, frame)
    IN  [a EXCEPT !.state = IF ts > CalibrationWindow THEN "FROZEN" ELSE "CALIBRATING",
                  !.value = [k \in Categories |-> a.sums[k] \div a.count]]

\* BaselineCalibrator.ingest(AggregatedFrame) for a frame with an audience
CalibratorIngest(c, frame, ts) ==
    IF c.state = "FROZEN" THEN c
    ELSE IF ts <= CalibrationWindow THEN Accumulate(c, frame)
    ELSE Freeze(c)

RECURSIVE SumScores(_, _, _)
\* the sum of the scores of samples i..j of a timeline
SumScores(tl, i, j) == IF i > j THEN 0 ELSE tl[i].score + SumScores(tl, i + 1, j)

\* M * (score - recent_avg), recent_avg the mean of the M samples before
\* sample i of the timeline
SpikeOver(tl, i) ==
    DetectorWindow * tl[i].score - SumScores(tl, i - DetectorWindow, i - 1)

\* a detector that never disarms
DetectWithoutHysteresis(d, tl) ==
    LET i == Len(tl)
    IN  IF i <= DetectorWindow THEN d
        ELSE IF SpikeOver(tl, i) > DetectorWindow * SPIKE_THRESHOLD
        THEN [d EXCEPT !.events = Append(@, [timestamp |-> tl[i].timestamp,
                                             intensity |-> tl[i].score])]
        ELSE d

\* ScareEventDetector on the sample just appended to the timeline
Detect(d, tl) ==
    LET i == Len(tl)
    IN  IF i <= DetectorWindow THEN d
        ELSE IF d.armed /\ SpikeOver(tl, i) > DetectorWindow * SPIKE_THRESHOLD
        THEN [armed |-> FALSE,
              events |-> Append(d.events, [timestamp |-> tl[i].timestamp,
                                           intensity |-> tl[i].score])]
        ELSE IF ~d.armed
                /\ SpikeOver(tl, i) < DetectorWindow * (SPIKE_THRESHOLD - HYSTERESIS)
        THEN [d EXCEPT !.armed = TRUE]
        ELSE d

\* the ShockScoreSample of a frame against the frozen baseline
Sample(frame, ts, b) ==
    [timestamp |-> ts, score |-> DocumentedShockScore(frame.emotions, b),
     audience_size |-> frame.audience_size]

\* an engine that scores a frame without an audience as a low score
EligibleAnyAudience(frame, c) == c.state = "FROZEN"

\* the frames the ShockScoreEngine takes: those with an audience that come
\* after the Baseline is frozen
Eligible(frame, c) ==
    /\ frame.audience_size > 0
    /\ c.state = "FROZEN"

\* one frame through the pipeline, in timestamp order
Ingest(frame) ==
    /\ frameCount < MaxSessionFrames
    /\ frameCount' = frameCount + 1
    /\ LET ts == frameCount + 1
           c == IF frame.audience_size = 0 THEN calibrator
                ELSE CalibratorIngest(calibrator, frame, ts)
           scored == Eligible(frame, c)
           tl == IF scored THEN Append(timeline, Sample(frame, ts, c.value)) ELSE timeline
       IN  /\ calibrator' = c
           /\ ingested' = Append(ingested, [audience_size |-> frame.audience_size,
                                            baseline |-> c.state])
           /\ timeline' = tl
           /\ detector' = IF scored THEN Detect(detector, tl) ELSE detector
    /\ UNCHANGED <<scoreVars, frameVars, videoVars, shown>>

----------------------------------------------------------------------------
(* ReportBuilder, and the documents the application shows *)

\* the largest integer whose square is at most n, for n up to 1000 * 1000
ISqrt(n) == CHOOSE r \in 0..1000 : r * r <= n /\ n < (r + 1) * (r + 1)

RECURSIVE SumSquares(_, _, _)
SumSquares(tl, i, j) ==
    IF i > j THEN 0 ELSE tl[i].score * tl[i].score + SumSquares(tl, i + 1, j)

RECURSIVE PeakScore(_, _)
\* max(scores) of the first n samples, 0 if empty
PeakScore(tl, n) ==
    IF n = 0 THEN 0
    ELSE IF tl[n].score >= PeakScore(tl, n - 1) THEN tl[n].score ELSE PeakScore(tl, n - 1)

\* mean(scores), 0 if the Timeline is empty (tenths)
AvgShock(tl) == IF Len(tl) = 0 THEN 0 ELSE SumScores(tl, 1, Len(tl)) \div Len(tl)

\* stddev(scores), the population standard deviation (tenths)
StdDev(tl) ==
    LET n == Len(tl)
        sum == SumScores(tl, 1, n)
    IN  IF n = 0 THEN 0 ELSE ISqrt((n * SumSquares(tl, 1, n) - sum * sum) \div (n * n))

\* clamp(1 - stddev / 50, 0, 1), as a numerator over 500
ConsistencyFactor(tl) ==
    IF StdDev(tl) >= 500 THEN 0 ELSE 500 - StdDev(tl)

\* clamp(avg_shock * peak_factor * consistency_factor / 10, 0, 10), in hundredths
EPM(tl) ==
    IF Len(tl) = 0 THEN 0
    ELSE LET \* avg_shock * peak_shock, in thousandths of a squared point
             product == ((SumScores(tl, 1, Len(tl)) * PeakScore(tl, Len(tl))) \div Len(tl)) \div 10
         IN  Min(1000, (product * ConsistencyFactor(tl)) \div (100 * 500))

\* the Report of a session: a pure function of Timeline, ScareEvents and Baseline.
\* Times are written as the fields of a clock reading, here one field
Report(tl, events, c) ==
    [kind |-> "report",
     overall |-> [epmScore |-> EPM(tl), avgShockScore |-> AvgShock(tl),
                  peakShockScore |-> PeakScore(tl, Len(tl)),
                  totalScareEvents |-> Len(events)],
     timeline |-> [i \in 1..Len(tl) |-> [time |-> <<tl[i].timestamp>>, shock |-> tl[i].score]],
     scareEvents |-> [i \in 1..Len(events) |->
                         [timestamp |-> <<events[i].timestamp>>,
                          intensity |-> events[i].intensity]],
     baseline_quality |-> c.quality]

\* ReportBuilder, at the end of the session or on demand: a pure function that
\* changes nothing
BuildReport ==
    /\ Report(timeline, detector.events, calibrator).kind = "report"
    /\ UNCHANGED vars

\* Report.js: mockData (scores in tenths, EPM in hundredths, times by their fields)
mockData ==
    [kind |-> "page",
     overall |-> [epmScore |-> 820, avgShockScore |-> 453, peakShockScore |-> 927,
                  totalScareEvents |-> 15],
     timeline |-> <<
        [time |-> <<0, 0>>, shock |-> 120], [time |-> <<5, 0>>, shock |-> 180],
        [time |-> <<10, 0>>, shock |-> 320], [time |-> <<15, 0>>, shock |-> 250],
        [time |-> <<20, 0>>, shock |-> 480], [time |-> <<25, 0>>, shock |-> 380],
        [time |-> <<30, 0>>, shock |-> 670], [time |-> <<35, 0>>, shock |-> 450],
        [time |-> <<40, 0>>, shock |-> 920], [time |-> <<45, 0>>, shock |-> 350],
        [time |-> <<50, 0>>, shock |-> 280], [time |-> <<55, 0>>, shock |-> 720],
        [time |-> <<1, 0>>, shock |-> 550], [time |-> <<1, 5>>, shock |-> 400],
        [time |-> <<1, 10>>, shock |-> 850], [time |-> <<1, 15>>, shock |-> 620] >>,
     scareEvents |-> <<
        [timestamp |-> <<12, 30>>, intensity |-> 685],
        [timestamp |-> <<25, 15>>, intensity |-> 723],
        [timestamp |-> <<40, 23>>, intensity |-> 927] >>]

\* routes/analytics.js: GET /dashboard
DashboardResponse ==
    [kind |-> "dashboard",
     recentAnalyses |-> <<[id |-> 1, epmScore |-> 820], [id |-> 2, epmScore |-> 750]>>,
     topPerformers |-> <<[epmScore |-> 910, peakShock |-> 953],
                         [epmScore |-> 890, peakShock |-> 927],
                         [epmScore |-> 850, peakShock |-> 894]>>]

\* routes/analytics.js: GET /compare
CompareResponse ==
    [kind |-> "comparison",
     films |-> <<[id |-> 1, epmScore |-> 820, avgShockScore |-> 425, totalScareEvents |-> 12],
                 [id |-> 2, epmScore |-> 710, avgShockScore |-> 352, totalScareEvents |-> 8]>>]

\* the Report page renders mockData, whatever the id in its URL
ViewReportPage ==
    /\ shown' = mockData
    /\ UNCHANGED <<scoreVars, frameVars, videoVars, frameCount, ingested, calibrator, timeline, detector>>

GetDashboard ==
    /\ shown' = DashboardResponse
    /\ UNCHANGED <<scoreVars, frameVars, videoVars, frameCount, ingested, calibrator, timeline, detector>>

GetCompare ==
    /\ shown' = CompareResponse
    /\ UNCHANGED <<scoreVars, frameVars, videoVars, frameCount, ingested, calibrator, timeline, detector>>

----------------------------------------------------------------------------
(* The webcam specification: one component and the route it posts to *)

InitFrame ==
    /\ component \in Components
    /\ mounted \in Routes
    /\ InitWebcam
    /\ InitServer
    /\ InitVideo
    /\ InitEngine

\* no webcam in this behaviour
InitFrameIdle ==
    /\ component = "WebcamShockScore"
    /\ mounted = "analyze-simple"
    /\ InitWebcam
    /\ InitServer
    /\ InitVideo
    /\ InitEngine

Init == InitScoreIdle /\ InitFrame

Next ==
    \/ ClickStart
    \/ \E saw \in BOOLEAN : GetUserMediaResolve(saw)
    \/ \E saw \in BOOLEAN : GetUserMediaReject(saw)
    \/ stopWebcam
    \/ \E t \in timers : TimerTick(t)
    \/ \E r \in requests : DeliverResponse(r)
    \/ \E r \in requests : NetworkError(r)
    \/ \E r \in requests : AnswerFrame(r)
    \/ \E r \in requests : SimpleRespond(r)

Spec == Init /\ [][Next]_vars

----------------------------------------------------------------------------
(* The route specification: POST /api/analyze/frame under concurrent requests *)

InitR == InitScoreIdle /\ InitFrame

NextR ==
    \/ PostFrame
    \/ \E r \in requests : ReceiveFrame(r)
    \/ \E r \in requests : PythonRun(r)
    \/ \E r \in requests : SendResponse(r)
    \/ \E r \in requests : SendFallback(r)
    \/ \E r \in requests : SimpleRespond(r)
    \/ \E r \in requests : CloseRequest(r)

SpecRoute == InitR /\ [][NextR]_vars

----------------------------------------------------------------------------
(* The scoring specification: one call of calculateShockScore *)

InitS == InitScore /\ InitFrameIdle
NextS == ComputeScore
SpecScore == InitS /\ [][NextS]_vars

----------------------------------------------------------------------------
(* The video specification: uploads, background runs, sockets, deletes *)

InitV == InitScoreIdle /\ InitFrameIdle

NextV ==
    \/ Upload
    \/ \E s \in Sockets, id \in VideoIds : SubscribeSession(s, id)
    \/ \E id \in VideoIds : PostProcess(id)
    \/ \E r \in runs : RunStart(r)
    \/ \E r \in runs : PythonMessage(r)
    \/ \E r \in runs : PythonWriteReport(r)
    \/ \E r \in runs : PythonError(r)
    \/ \E r \in runs, err \in BOOLEAN : PythonEnd(r, err)
    \/ \E id \in VideoIds : DeleteVideo(id)
    \/ \E id \in VideoIds : GetStatus(id)
    \/ \E id \in VideoIds : GetReport(id)

SpecVideo == InitV /\ [][NextV]_vars

\* the server's own steps happen: a setImmediate callback runs, and the engine
\* process exits; no client is obliged to send any request
SpecVideoFair ==
    /\ SpecVideo
    /\ WF_vars(\E r \in runs : RunStart(r))
    /\ WF_vars(\E r \in runs, err \in BOOLEAN : PythonEnd(r, err))

----------------------------------------------------------------------------
(* The session specification: one session of the core, and the report views *)

InitE == InitScoreIdle /\ InitFrameIdle

NextE ==
    \/ \E frame \in AggregatedFrames : Ingest(frame)
    \/ BuildReport
    \/ ViewReportPage
    \/ GetDashboard
    \/ GetCompare

SpecEngine == InitE /\ [][NextE]_vars

----------------------------------------------------------------------------
(* C1: every score calculateShockScore returns lies in [0, 100], for every *)
(* emotion vector with entries in [0, 100], present or missing.            *)
C1_ScoreInRange ==
    scorePc = "done" => shockScore \in 0..1000

\* a call whose weighted sum exceeds maxPossible, so that the cap acts
C1_Witness ==
    /\ scorePc = "done"
    /\ WeightedSum(emotions) > Scale * maxPossible
    /\ shockScore = 1000

(* C2: the score of a frame equals the documented formula                  *)
(* clamp(fear_delta * 2.0 + surprise_delta * 1.5 + (fear + disgust)/2, 0,   *)
(* 100) over the session baseline.                                         *)
C2_ScoreIsDocumentedFormula ==
    scorePc = "done" => shockScore = DocumentedShockScore(emotions, baseline)

\* the documented scenario has been scored
C2_Scenario ==
    /\ scorePc = "done"
    /\ emotions = ScenarioFrame
    /\ baseline = [fear |-> Pct(5), surprise |-> Pct(3)]
    /\ DocumentedShockScore(emotions, baseline) = 1000
    /\ shockScore = 337

----------------------------------------------------------------------------
\* the analysis of request r found no face
NoFaceFound(r) == "faceDetected" \in DOMAIN r.analysis /\ ~r.analysis.faceDetected
\* PythonShell.run rejected for request r
AnalysisFailed(r) == r.analysis = Rejected
Answered(r) == r.stage = "responded"

(* C3: a frame without a face is not a low score.  The response for it     *)
(* carries faceDetected false and neither emotions nor shockScore, and     *)
(* WebcamShockScore, applying a response with faceDetected false, changes  *)
(* faceDetected to false and leaves currentShockScore, emotionScores and   *)
(* dominantEmotion as they were.                                           *)
C3_NoFaceIsNotALowScore ==
    /\ [](\A r \in requests :
            Answered(r) /\ NoFaceFound(r) =>
                /\ ~r.resp.faceDetected
                /\ "shockScore" \notin DOMAIN r.resp
                /\ "emotions" \notin DOMAIN r.resp)
    /\ [][\A r \in requests :
            (/\ component = "WebcamShockScore"
             /\ Answered(r) /\ ~r.resp.faceDetected
             /\ requests' = requests \ {r})
            => (/\ faceDetected' = FALSE
                /\ UNCHANGED <<currentShockScore, emotionScores, dominantEmotion>>)]_vars

\* WebcamShockScore still shows the score of an earlier frame after a
\* frame without a face was applied
C3_Witness ==
    /\ component = "WebcamShockScore"
    /\ isActive
    /\ ~faceDetected
    /\ currentShockScore > 0
    /\ lastApplied = 2

Eps == Cardinality(Categories)

(* C5: every emotions object POST /api/analyze/frame returns has every     *)
(* category in [0, 100] and the categories sum to 100 within rounding.     *)
C5_EmotionsSumTo100 ==
    \A r \in requests :
        Answered(r) /\ "emotions" \in DOMAIN r.resp =>
            /\ \A k \in Categories : r.resp.emotions[k] \in 0..Pct(100)
            /\ SumOver(r.resp.emotions) \in (Pct(100) - Eps)..(Pct(100) + Eps)

\* the fallback has answered with every Math.random() at 1/2
C5_FallbackAnswered ==
    \E r \in requests :
        /\ Answered(r) /\ AnalysisFailed(r)
        /\ SumOver(r.resp.emotions) = Pct(70)

(* C6: at most one frame-analysis request of the component is in flight.   *)
C6_AtMostOneInFlight ==
    Cardinality(requests) <= 1

(* C7: results are applied in capture order: the frame applied last is     *)
(* never followed by an earlier-captured frame.                            *)
C7_AppliedInCaptureOrder ==
    [][lastApplied' >= lastApplied]_vars

(* C9: after the response of a request is sent, no file in backend/temp    *)
(* holds its frame: a temp file exists only for a request that is between  *)
(* its writeFile and its unlink.                                           *)
C9_NoFrameStoredAfterResponse ==
    \A p \in TempPaths :
        fs[p] # 0 => \E r \in requests : r.id = fs[p] /\ r.stage \in {"written", "analysed"}

\* a failed analysis has been answered while another request's frame sits
\* at the same temp path
C9_Witness ==
    \E r1, r2 \in requests :
        /\ Answered(r1) /\ AnalysisFailed(r1)
        /\ r2.stage = "written" /\ r2.tempPath = r1.tempPath
        /\ fs[r1.tempPath] = r2.id

----------------------------------------------------------------------------
(* C8: concurrent processing sessions are isolated.  Every event a socket  *)
(* has received is about a video whose room session-<id> the socket has    *)
(* joined, every report file in uploads lies at the report path of the     *)
(* video it reports on, and the report a run has read is its own video's.  *)
C8_SessionsIsolated ==
    /\ \A s \in Sockets : \A e \in received[s] : Room(e.videoId) \in rooms[s]
    /\ \A p \in UploadPaths :
          uploads[p].kind = "report" => p = ReportPath(uploads[p].of)
    /\ \A r \in runs : r.report # NoFile => r.report = ReportOf(r.videoId)

\* two runs at once, for videos 1 and 2, each with its report written; the run
\* for video 1 has emitted processing-error; a socket that joined only
\* session-2 holds events about video 2 and none about video 1
C8_Witness ==
    \E s \in Sockets, r1 \in runs, r2 \in runs :
        /\ r1.videoId = 1 /\ r1.stage = "written" /\ r1.settled = "rejected"
        /\ r2.videoId = 2 /\ r2.stage = "written"
        /\ uploads[ReportPath(1)] = ReportOf(1)
        /\ uploads[ReportPath(2)] = ReportOf(2)
        /\ rooms[s] = {Room(2)}
        /\ received[s] = {[event |-> "processing-progress", videoId |-> 2]}

----------------------------------------------------------------------------
Stored(videoId) == Exists(VideoPath(videoId))
RunEnded(videoId) == \E r \in runs : r.videoId = videoId /\ r.stage = "ended"

(* C10: an uploaded video is never stored permanently: once a processing   *)
(* run for a video has ended, the video file in uploads is eventually      *)
(* removed.                                                                *)
C10_VideoEventuallyRemoved ==
    \A v \in VideoIds : (RunEnded(v) /\ Stored(v)) ~> ~Stored(v)

\* every run has ended, and the video of one of them is still in uploads
C10_StoredAfterRun ==
    /\ \A r \in runs : r.stage = "ended"
    /\ \E v \in VideoIds : RunEnded(v) /\ Stored(v)

----------------------------------------------------------------------------
\* a run of the video has started and has not ended
Processing(videoId) ==
    \E r \in runs : r.videoId = videoId /\ r.stage \in {"running", "written"}

(* C11: querying a session at any point after its processing has started   *)
(* yields a report: while a run of a video is under way,                   *)
(* GET /api/videos/:id/report answers 200 with a report of that video.     *)
C11_ReportWhileProcessing ==
    \A v \in VideoIds :
        Processing(v) =>
            /\ ReportResponse(v).code = 200
            /\ ReportResponse(v).report = ReportOf(v)

\* a run is under way, no report file exists yet, and the route answers 404
C11_NoReportYet ==
    \E v \in VideoIds :
        /\ Processing(v)
        /\ ~Exists(ReportPath(v))
        /\ ReportResponse(v).code = 404

----------------------------------------------------------------------------
\* processVideo resolved for a run of the video: processing-complete was emitted
Completed(videoId) ==
    \E r \in runs : r.videoId = videoId /\ r.settled = "resolved"

\* DELETE /api/videos/:id has removed the video: ids are never handed out twice
Deleted(videoId) == videoId <= uploadSeq /\ ~Stored(videoId)

(* C12: a processing-complete event about a video has been received only   *)
(* if a run of that video has ended without error and has read its report; *)
(* and once a run of a video has completed, as long as the video has not   *)
(* been deleted, GET status answers 'completed' with reportAvailable true   *)
(* and GET report answers 200 with the report of that video.               *)
C12_CompleteMeansReportAvailable ==
    /\ \A s \in Sockets : \A e \in received[s] :
          e.event = "processing-complete" =>
              \E r \in runs : /\ r.videoId = e.videoId
                              /\ r.stage = "ended"
                              /\ r.settled = "resolved"
                              /\ r.report = ReportOf(e.videoId)
    /\ \A v \in VideoIds :
          Completed(v) /\ ~Deleted(v) =>
              /\ StatusResponse(v).status = "completed"
              /\ StatusResponse(v).reportAvailable
              /\ ReportResponse(v).code = 200
              /\ ReportResponse(v).report = ReportOf(v)

\* a socket holds processing-complete for a stored video, while a second run
\* of the same video is still under way
C12_Witness ==
    \E s \in Sockets, v \in VideoIds :
        /\ [event |-> "processing-complete", videoId |-> v] \in received[s]
        /\ Completed(v) /\ Stored(v) /\ Processing(v)
        /\ StatusResponse(v).status = "completed"

----------------------------------------------------------------------------
(* C13: after DELETE /api/videos/:id has answered, neither the video file  *)
(* nor the report file of that id exists and GET /api/videos/:id/report    *)
(* answers 404, whatever a run of the same id in flight does afterwards.   *)
C13_DeletedStaysDeleted ==
    \A v \in VideoIds :
        Deleted(v) =>
            /\ ~Exists(VideoPath(v))
            /\ ~Exists(ReportPath(v))
            /\ ReportResponse(v).code = 404

\* the video was deleted while its run was under way, the run went on to write
\* its report, and the report route answers 200
C13_ReportAfterDelete ==
    \E r \in runs :
        /\ Deleted(r.videoId)
        /\ r.stage \in {"written", "ended"}
        /\ Exists(ReportPath(r.videoId))
        /\ ReportResponse(r.videoId).code = 200

----------------------------------------------------------------------------
(* C14: POST /api/videos/:id/process for an id without a video file        *)
(* answers 404 'Video not found', adds no run and emits no event; for an   *)
(* existing video it answers 'Processing started' while the run it adds is *)
(* only scheduled: not launched, not settled, and no event emitted by the  *)
(* request.  A run that is only scheduled has emitted no terminal event.   *)
C14_ProcessAnswer ==
    /\ [](\A r \in runs : r.stage = "scheduled" => r.settled = "pending")
    /\ [][\A id \in VideoIds :
            PostProcess(id) =>
                IF Exists(VideoPath(id))
                THEN /\ ProcessResponse(id).code = 200
                     /\ ProcessResponse(id).message = "Processing started"
                     /\ \E r \in runs' \ runs : /\ r.videoId = id
                                                /\ r.stage = "scheduled"
                                                /\ r.settled = "pending"
                     /\ received' = received
                ELSE /\ ProcessResponse(id).code = 404
                     /\ ProcessResponse(id).error = "Video not found"
                     /\ runs' = runs
                     /\ received' = received]_vars

\* one video is stored and its run is scheduled but not launched, with a
\* socket in its room that holds no event; the other id has no file and the
\* route answers 404 for it
C14_Witness ==
    \E r \in runs, s \in Sockets, id \in VideoIds :
        /\ r.stage = "scheduled"
        /\ Room(r.videoId) \in rooms[s]
        /\ received[s] = {}
        /\ ~Exists(VideoPath(id))
        /\ ProcessResponse(id).code = 404

----------------------------------------------------------------------------
\* the sum of the entries of an emotion vector, missing ones counting as 0
Total(e) ==
    OrZero(e, "angry") + OrZero(e, "disgust") + OrZero(e, "fear") + OrZero(e, "happy")
    + OrZero(e, "sad") + OrZero(e, "surprise") + OrZero(e, "neutral")

\* percentages of one face or audience: they add up to at most 100
IsDistribution(e) == Total(e) <= Pct(100)

Weights ==
    {FEAR_WEIGHT, SURPRISE_WEIGHT, DISGUST_WEIGHT, HAPPY_WEIGHT, ANGRY_WEIGHT, SAD_WEIGHT}

\* the largest value the weighted sum takes on a distribution: all of the 100
\* percent on the category of the largest weight (in tenths)
MaxWeightedSum == 100 * (CHOOSE w \in Weights : \A x \in Weights : x <= w)

(* C15: calculateShockScore(e) is the weighted sum of e divided by the     *)
(* maximum possible value of that weighted sum and multiplied by 100,      *)
(* rounded to one decimal; neutral adds nothing, a missing category is 0.  *)
C15_ScoreIsNormalizedWeightedSum ==
    scorePc = "done" /\ IsDistribution(emotions) =>
        shockScore = MathRound(1000 * WeightedSum(emotions), Scale * MaxWeightedSum)

\* a frame of pure fear: the weighted sum is at its maximum, the result is 57.1
C15_PureFear ==
    /\ scorePc = "done"
    /\ emotions = [fear |-> Pct(100)]
    /\ WeightedSum(emotions) = Scale * MaxWeightedSum
    /\ shockScore = 571

----------------------------------------------------------------------------
(* C16: for every emotion vector, calculateShockScore of routes/analyze.js *)
(* (the value in shockScore), of routes/analyze-simple.js and of the       *)
(* Netlify function analyze-frame.js return the same value.                *)
C16_SameAlgorithmEverywhere ==
    scorePc = "done" =>
        /\ shockScore = calculateShockScoreSimple(emotions)
        /\ shockScore = calculateShockScoreNetlify(emotions)

\* a vector with a missing category whose weighted sum exceeds the divisor, so
\* that all three go through the cap; and one below it
C16_Witness ==
    /\ scorePc = "done"
    /\ "neutral" \notin DOMAIN emotions
    /\ WeightedSum(emotions) > Scale * maxPossible
    /\ calculateShockScoreSimple(emotions) = 1000
    /\ calculateShockScoreNetlify(ScenarioFrame) = 337

----------------------------------------------------------------------------
Range(f) == {f[i] : i \in DOMAIN f}

\* the entries of a document that report an EPM
EpmRows(doc) ==
    (IF "overall" \in DOMAIN doc THEN {doc.overall} ELSE {})
    \cup (IF "topPerformers" \in DOMAIN doc THEN Range(doc.topPerformers) ELSE {})
    \cup (IF "recentAnalyses" \in DOMAIN doc THEN Range(doc.recentAnalyses) ELSE {})
    \cup (IF "films" \in DOMAIN doc THEN Range(doc.films) ELSE {})

\* the peak shock reported with an EPM, 100 when none is
RowPeak(row) ==
    IF "peakShockScore" \in DOMAIN row THEN row.peakShockScore
    ELSE IF "peakShock" \in DOMAIN row THEN row.peakShock
    ELSE 1000

\* the average shock reported with an EPM; an average is at most the peak
RowAvg(row) ==
    IF "avgShockScore" \in DOMAIN row THEN row.avgShockScore ELSE RowPeak(row)

\* the documents there are to see: the one last shown, and the Report of the
\* session as it would be built now
Documents == {shown, Report(timeline, detector.events, calibrator)}

(* C17: every EPM the application reports lies in [0, 10] and does not     *)
(* exceed avg_shock * peak_shock / 1000 for the average and peak reported  *)
(* with it (up to the rounding of the average to one decimal), and the     *)
(* report of an empty timeline has EPM 0.                                  *)
C17_EpmWithinFormula ==
    \A doc \in Documents :
        /\ \A row \in EpmRows(doc) :
              /\ row.epmScore \in 0..1000
              /\ row.epmScore * 1000 <= (RowAvg(row) + 1) * RowPeak(row)
        /\ doc.kind = "report" /\ doc.timeline = <<>> =>
              /\ doc.overall.epmScore = 0
              /\ doc.overall.avgShockScore = 0
              /\ doc.overall.peakShockScore = 0

\* the Report page shows EPM 8.2 with average 45.3 and peak 92.7
C17_ReportPageShown ==
    /\ shown = mockData
    /\ shown.overall.epmScore = 820
    /\ shown.overall.avgShockScore * shown.overall.peakShockScore < 420 * 1000

----------------------------------------------------------------------------
RECURSIVE Seconds(_, _)
\* the clock reading whose first n fields are given, each field worth sixty of
\* the next ('25:15' is 25 * 60 + 15)
Seconds(t, n) == IF n = 0 THEN 0 ELSE 60 * Seconds(t, n - 1) + t[n]

HasTimeline(doc) == "timeline" \in DOMAIN doc /\ "scareEvents" \in DOMAIN doc

(* C18: in every report the application produces or displays, each scare   *)
(* event's timestamp is the timestamp of some timeline sample of the same  *)
(* report, and the timeline's timestamps strictly increase.                *)
C18_ScareEventsOnTimeline ==
    \A doc \in Documents :
        HasTimeline(doc) =>
            /\ \A i \in DOMAIN doc.scareEvents :
                  \E j \in DOMAIN doc.timeline :
                      doc.timeline[j].time = doc.scareEvents[i].timestamp
            /\ \A j \in DOMAIN doc.timeline :
                  j > 1 => Seconds(doc.timeline[j - 1].time, Len(doc.timeline[j - 1].time))
                           < Seconds(doc.timeline[j].time, Len(doc.timeline[j].time))

\* the Report page: the scare event at 12:30 lies between the samples at 10:00
\* and 15:00, and the sample '01:00' follows the sample '55:00'
C18_ReportPageShown ==
    /\ shown = mockData
    /\ shown.scareEvents[1].timestamp = <<12, 30>>
    /\ \A j \in DOMAIN shown.timeline : shown.timeline[j].time # <<12, 30>>
    /\ shown.timeline[12].time = <<55, 0>>
    /\ shown.timeline[13].time = <<1, 0>>

----------------------------------------------------------------------------
(* C19: the session baseline is write-once: its state moves only from      *)
(* CALIBRATING to FROZEN, and once FROZEN the per-category values (and     *)
(* everything else the calibrator holds) are the same after every further  *)
(* frame.                                                                  *)
C19_BaselineWriteOnce ==
    [][/\ calibrator.state = "FROZEN" => calibrator' = calibrator
       /\ calibrator'.state = "CALIBRATING" => calibrator.state = "CALIBRATING"]_vars

\* a baseline frozen from calibration samples, with two frames scored since
C19_Witness ==
    /\ calibrator.state = "FROZEN"
    /\ calibrator.count > 0
    /\ calibrator.value = CalmFrame
    /\ Len(timeline) >= 2
    /\ timeline[1].score # timeline[2].score

----------------------------------------------------------------------------
\* sample i of the timeline is past warm-up and lies more than the spike
\* threshold above the average of the DetectorWindow samples before it
Over(tl, i) ==
    /\ i > DetectorWindow
    /\ SpikeOver(tl, i) > DetectorWindow * SPIKE_THRESHOLD

OverSet(tl) == {i \in DOMAIN tl : Over(tl, i)}

\* a ScareEvent carries the timestamp of sample i
EventAt(tl, events, i) ==
    \E k \in DOMAIN events : events[k].timestamp = tl[i].timestamp

\* the samples over the threshold are consecutive: one sustained spike
OneSpike(tl) ==
    /\ OverSet(tl) # {}
    /\ \A i \in OverSet(tl), j \in OverSet(tl) :
          \A k \in DOMAIN tl : i < k /\ k < j => k \in OverSet(tl)

\* what the events say about the timeline they were detected on
DetectorConsistent ==
    /\ \A i \in DOMAIN timeline :
          EventAt(timeline, detector.events, i) =>
              Over(timeline, i) /\ ~Over(timeline, i - 1)
    /\ \A k \in DOMAIN detector.events :
          \E i \in DOMAIN timeline :
              timeline[i].timestamp = detector.events[k].timestamp
    /\ OverSet(timeline) = {} => detector.events = <<>>
    /\ OneSpike(timeline) => Len(detector.events) = 1

\* what one step may do to the detector
DetectorStep ==
    /\ Len(detector'.events) <= Len(detector.events) + 1
    /\ Len(detector'.events) > Len(detector.events) =>
          detector.armed /\ ~detector'.armed
    /\ ~detector.armed /\ detector'.armed =>
          SpikeOver(timeline', Len(timeline'))
              < DetectorWindow * (SPIKE_THRESHOLD - HYSTERESIS)

(* C20: a score sequence with one sustained spike above the spike          *)
(* threshold, lasting K consecutive frames, yields exactly one ScareEvent, *)
(* at the first sample over the threshold and never during warm-up; a step *)
(* emits an event only when armed and then disarms; and a disarmed         *)
(* detector re-arms only on a sample whose score is below                  *)
(* recent_avg + (SPIKE_THRESHOLD - HYSTERESIS).                            *)
C20_OneEventPerSpike == []DetectorConsistent /\ [][DetectorStep]_vars

\* a spike of two consecutive samples over the threshold, one event, at its
\* first sample, and the detector armed again after it
C20_Witness ==
    \E i \in DOMAIN timeline :
        /\ OverSet(timeline) = {i, i + 1}
        /\ Len(detector.events) = 1
        /\ detector.events[1].timestamp = timeline[i].timestamp
        /\ Len(timeline) > i + 1
        /\ detector.armed

----------------------------------------------------------------------------
\* the timestamps of the frames ingested with an audience once the Baseline
\* was frozen
PostCalibration ==
    {i \in DOMAIN ingested :
        ingested[i].audience_size > 0 /\ ingested[i].baseline = "FROZEN"}

\* the timeline samples of frames i..j
SamplesOf(i, j) == {k \in DOMAIN timeline : timeline[k].timestamp \in i..j}

(* C21: the timeline has exactly one sample for each frame that arrived    *)
(* with an audience after the baseline was frozen, and none for any other  *)
(* frame: its length is the number of such frames, and four consecutive    *)
(* frames with audience sizes 0, 0, 0, 5 after calibration add exactly one *)
(* sample, that of the fourth.                                             *)
C21_TimelineCountsEligibleFrames ==
    /\ Len(timeline) = Cardinality(PostCalibration)
    /\ {timeline[k].timestamp : k \in DOMAIN timeline} = PostCalibration
    /\ \A i \in DOMAIN ingested :
          /\ i + 3 \in DOMAIN ingested
          /\ [j \in 0..3 |-> ingested[i + j].audience_size] = [j \in 0..3 |-> IF j = 3 THEN 5 ELSE 0]
          /\ ingested[i + 3].baseline = "FROZEN"
          => /\ Cardinality(SamplesOf(i, i + 3)) = 1
             /\ \E k \in SamplesOf(i, i + 3) : timeline[k].timestamp = i + 3

\* audience sizes 0, 0, 0, 5 on frames 3..6, after a first sample
C21_Witness ==
    /\ Len(ingested) >= 6
    /\ [j \in 0..3 |-> ingested[3 + j].audience_size] = [j \in 0..3 |-> IF j = 3 THEN 5 ELSE 0]
    /\ ingested[2].baseline = "FROZEN"
    /\ Len(timeline) >= 2

----------------------------------------------------------------------------
\* a run of the video was accepted and has neither ended nor failed
RunInProgress(videoId) ==
    \E r \in runs : /\ r.videoId = videoId
                    /\ r.stage # "ended"
                    /\ r.settled = "pending"

(* C22: GET /api/videos/:id/status answers 'processing' only while a run   *)
(* of that id is in progress; not for an id that was never uploaded, never *)
(* processed, deleted, or whose run ended in processing-error.             *)
C22_ProcessingMeansRunInProgress ==
    \A v \in VideoIds :
        StatusResponse(v).status = "processing" => RunInProgress(v)

\* the status route answers 'processing' for an id that was never uploaded and
\* for a video whose only run has ended in processing-error
C22_ProcessingWithoutRun ==
    \E v, w \in VideoIds :
        /\ v > uploadSeq
        /\ \A r \in runs : r.videoId # v
        /\ StatusResponse(v).status = "processing"
        /\ \E r \in runs : r.videoId = w
        /\ \A r \in runs : r.videoId = w => r.stage = "ended" /\ r.settled = "rejected"
        /\ StatusResponse(w).status = "processing"

----------------------------------------------------------------------------
TerminalEvents == {"processing-complete", "processing-error"}

(* C23: every run whose Python process has ended has made the route emit   *)
(* exactly one terminal event, processing-complete or processing-error,    *)
(* whichever of the 'error' event and the end callback fired and in        *)
(* whatever order; no run ever emits two, and a run not yet started has    *)
(* emitted none.                                                           *)
C23_ExactlyOneTerminalEvent ==
    \A r \in runs :
        /\ Len(r.terminal) <= 1
        /\ \A i \in DOMAIN r.terminal : r.terminal[i] \in TerminalEvents
        /\ r.stage = "ended" => Len(r.terminal) = 1
        /\ r.stage = "scheduled" => r.terminal = <<>>
        /\ r.terminal = <<"processing-complete">> <=> r.settled = "resolved"
        /\ r.terminal = <<"processing-error">> <=> r.settled = "rejected"

\* the 'error' event fired first, then the engine ended without error and the
\* end callback read its report: one processing-error, no processing-complete
C23_Witness ==
    \E r \in runs :
        /\ r.stage = "ended"
        /\ r.settled = "rejected"
        /\ r.report = ReportOf(r.videoId)
        /\ r.terminal = <<"processing-error">>

----------------------------------------------------------------------------
\* the engine process of the run exists: started and not ended
Active(r) == r.stage \in {"running", "written"}

(* C24: at most one processing run per video id is active at any time: no  *)
(* two engine processes that write the same report path exist together.    *)
C24_OneActiveRunPerVideo ==
    \A r1, r2 \in runs :
        /\ Active(r1) /\ Active(r2)
        /\ r1.videoId = r2.videoId \/ r1.outputPath = r2.outputPath
        => r1 = r2

\* two POSTs for one video: two engine processes are running, both with the
\* same --output
C24_TwoRunsOneReport ==
    \E r1, r2 \in runs :
        /\ r1 # r2
        /\ r1.videoId = r2.videoId
        /\ r1.outputPath = r2.outputPath
        /\ r1.stage = "running" /\ r2.stage = "running"

----------------------------------------------------------------------------
\* the handler of the request has written its frame and not yet unlinked it
HoldsFrame(r) == r.stage \in {"written", "analysed"}

(* C25: two POST /api/analyze/frame requests handled concurrently by the   *)
(* Python-backed route never use the same temporary file path: while a     *)
(* handler holds its frame, the file at its path is its own frame.         *)
C25_TempPathsDistinct ==
    /\ \A r1, r2 \in requests :
          HoldsFrame(r1) /\ HoldsFrame(r2) /\ r1.tempPath = r2.tempPath => r1 = r2
    /\ \A r \in requests : r.stage = "written" => fs[r.tempPath] = r.id

\* two requests arrived within one millisecond: both hold the same path, and
\* the file there is the frame of the later one
C25_SamePath ==
    \E r1, r2 \in requests :
        /\ r1 # r2
        /\ r1.stage = "written" /\ r2.stage = "written"
        /\ r1.tempPath = r2.tempPath
        /\ fs[r1.tempPath] = r2.id

----------------------------------------------------------------------------
\* calculateShockScore of the route that is mounted
RouteScore(e) ==
    IF mounted = "analyze" THEN calculateShockScore(e) ELSE calculateShockScoreSimple(e)

(* C26: in every POST /api/analyze/frame response with faceDetected true,  *)
(* on every path of both routes and of the Netlify function, the           *)
(* shockScore field equals calculateShockScore of the emotions object of   *)
(* the same response.                                                      *)
C26_ScoreMatchesEmotions ==
    /\ \A r \in requests :
          Answered(r) /\ r.resp.faceDetected =>
              r.resp.shockScore = RouteScore(r.resp.emotions)
    /\ \A s \in RandStreams :
          NetlifyResponse(s).shockScore = calculateShockScoreNetlify(NetlifyResponse(s).emotions)

\* the Python analysis failed and the route answered a shockScore that is not
\* the score of the emotions it answered
C26_FallbackScoreUnrelated ==
    \E r \in requests :
        /\ Answered(r) /\ AnalysisFailed(r)
        /\ r.resp.faceDetected
        /\ r.resp.shockScore # calculateShockScore(r.resp.emotions)

----------------------------------------------------------------------------
\* the camera is off and no startWebcam is under way: the component is in its
\* initial state or stopWebcam ran last
Stopped ==
    /\ ~isActive
    /\ pendingStarts[TRUE] = 0
    /\ pendingStarts[FALSE] = 0

\* what resetScores leaves
ScoresReset ==
    /\ currentShockScore = 0
    /\ dominantEmotion = "neutral"
    /\ emotionScores = ZeroScores
    /\ ~faceDetected

(* C27: after stopWebcam and until the next startWebcam the component's    *)
(* state stays reset: isActive false, currentShockScore 0, dominantEmotion *)
(* 'neutral', all emotion scores 0, faceDetected false, also when the      *)
(* response to a frame sent before the stop arrives after it.              *)
C27_StaysResetAfterStop == Stopped => ScoresReset

\* the camera was stopped, every timer is gone, and the answer to a frame sent
\* before the stop has been applied since
C27_LateResponseApplied ==
    /\ Stopped
    /\ starts > 0
    /\ timers = {}
    /\ requests = {}
    /\ lastApplied > 0
    /\ faceDetected
    /\ currentShockScore > 0

----------------------------------------------------------------------------
(* C28: at most one capture interval timer exists per webcam component at  *)
(* any time, the one intervalRef names, and none exists after stopWebcam:  *)
(* every timer startFrameCapture created is cleared by a later             *)
(* stopFrameCapture, also when Start Camera is triggered a second time     *)
(* before the first camera-permission request has resolved.                *)
C28_AtMostOneTimer ==
    /\ Cardinality(timers) <= 1
    /\ \A t \in timers : t.id = intervalRef
    /\ Stopped => timers = {}

\* Start Camera was clicked twice before the permission resolved; the camera
\* has been stopped since and a timer that nothing names still exists
C28_TimerLeftAfterStop ==
    /\ Stopped
    /\ starts = 2
    /\ intervalRef = 0
    /\ timers # {}

----------------------------------------------------------------------------
\* 57.1, in tenths
PureFearScore == MathRound(1000 * 100 * FEAR_WEIGHT, maxPossible)

====
